---- MODULE Spec2Model ----
(***************************************************************************)
(* Verification model of two components of cubecl:                         *)
(*                                                                         *)
(*   crates/cubecl-linalg/src/matmul/components/global/tensor_view/base.rs *)
(*       TensorView: new, update_view, load_coalesced, write_coalesced     *)
(*   crates/cubecl-cpp/src/shared/barrier.rs                               *)
(*       BarrierOps: the Display rendering of Init,                        *)
(*       MemCopyAsync and Wait, together with the execution of the         *)
(*       rendered statements by the lanes of one cube.                     *)
(*                                                                         *)
(* u32 values are modelled as naturals below 2^WordBits with wrapping      *)
(* arithmetic (the arithmetic of the generated kernel).                    *)
(***************************************************************************)
EXTENDS Integers, Sequences, FiniteSets, TLC

VARIABLES
    \* ---- TensorView<E> (base.rs:10-19) ----
    tensor,        \* Tensor<Line<E>>: rank, shape, strides, line_size, data
    x_offset,
    y_offset,
    stride_x,
    stride_y,
    shape_x,
    shape_y,
    batch_offset,
    \* ---- comptime configuration (G: global::Config) ----
    config,
    \* ---- bookkeeping of the calls made on the view ----
    nth_batch,     \* the nth_batch argument TensorView::new was called with
    advances,      \* number of update_view calls so far
    writes,        \* number of write_coalesced calls so far
    lastOp,        \* the last call (and the update_view before it): arguments, results
    \* ---- one cube executing a rendered kernel body (barrier.rs) ----
    program,       \* Seq(BarrierOps): the kernel body that is rendered
    pc,            \* per lane: index of the next rendered statement
    sharedBar,     \* the __shared__ cuda::barrier<thread_scope_block> object
    localBar,      \* per lane: its cuda::barrier<thread_scope_thread> object
    token,         \* per lane: phase observed on arrival, or NoToken
    initLog,       \* per lane: the init(&barrier, n) calls it performed
    copies,        \* per lane: the memcpy_async it issued, if any
    dstMem,        \* bytes of the destination buffer of the copy
    ub             \* uses of a barrier that was not initialized

viewVars == <<tensor, x_offset, y_offset, stride_x, stride_y, shape_x, shape_y,
              batch_offset, config, nth_batch, advances, writes, lastOp>>
barrierVars == <<program, pc, sharedBar, localBar, token, initLog, copies,
                 dstMem, ub>>
vars == <<viewVars, barrierVars>>

----------------------------------------------------------------------------
(* Bounds of the model *)

\* width of the machine word standing for u32
WordBits == 6
\* update_view is called at most MaxAdvance times
MaxAdvance == 3
\* tile_x and tile_y range over 0..MaxTile
MaxTile == 1
\* write_coalesced is called at most MaxWrites times
MaxWrites == 1
\* number of lanes of the cube (blockDimGlobal)
NumLanes == 2

----------------------------------------------------------------------------
(* u32 arithmetic *)

Modulus == 2^WordBits

Add(a, b) == (a + b) % Modulus

Mul(a, b) == (a * b) % Modulus

\* the u32 value that stands for -k
Neg(k) == (Modulus - k) % Modulus

----------------------------------------------------------------------------
(* Ident, MatrixLayout, Line, Tensor *)

Idents == {"Lhs", "Rhs", "Out"}

\* Line::empty(line_size).fill(EG::from_int(0))
ZeroLine(line_size) == [j \in 1..line_size |-> 0]

\* Line::cast_from(value): the numeric cast keeps the values of the model
CastLine(value) == value

\* tensor.stride(dim), tensor.shape(dim): dim counts from 0
stride(t, dim) == t.strides[dim + 1]

shape(t, dim) == t.shape[dim + 1]

\* A rank-3 tensor whose element at linear element index e holds the tag
\* e + 1; line i holds the elements i*line_size .. i*line_size+line_size-1.
MkTensor(shp, strd, ls) ==
    [rank      |-> 3,
     shape     |-> shp,
     strides   |-> strd,
     line_size |-> ls,
     data      |-> [i \in 0..(((shp[1] * shp[2] * shp[3]) \div ls) - 1) |->
                       [j \in 1..ls |-> i * ls + j]]]

\* contiguous strides of a [batch, rows, cols] tensor
Contiguous(shp) == <<shp[2] * shp[3], shp[3], 1>>

\* the two trailing dimensions stored column by column
Transposed(shp) == <<shp[2] * shp[3], 1, shp[2]>>

Tensors ==
    { MkTensor(<<2, 4, 4>>, Contiguous(<<2, 4, 4>>), 1),
      MkTensor(<<2, 3, 4>>, Contiguous(<<2, 3, 4>>), 1),
      MkTensor(<<2, 4, 4>>, Contiguous(<<2, 4, 4>>), 2),
      MkTensor(<<2, 4, 3>>, Transposed(<<2, 4, 3>>), 1) }

\* what an indexed read outside the buffer may yield
GarbageLines(ls) == { ZeroLine(ls), [j \in 1..ls |-> Modulus - 1] }

\* tensor[pos]
ReadLine(t, pos, garbage) == IF pos \in DOMAIN t.data THEN t.data[pos] ELSE garbage

----------------------------------------------------------------------------
(* global::Config *)

StageDims == { [tile_size_x |-> 2, tile_size_y |-> 2],
               [tile_size_x |-> 1, tile_size_y |-> 2] }

LayoutOf == [i \in Idents |-> IF i = "Rhs" THEN "ColMajor" ELSE "RowMajor"]

\* The configurations for a tensor of line size ls: config.line_size(ident) is
\* the vectorization of the operand's tensor.
Configs(flags, ls) ==
    { [line_size      |-> [i \in Idents |-> ls],
       stage_dim      |-> [i \in Idents |-> sd],
       layout         |-> LayoutOf,
       check_m_bounds |-> f[1],
       check_n_bounds |-> f[2]] : sd \in StageDims, f \in flags }

----------------------------------------------------------------------------
(* TensorView *)

\* the view held in the state variables
Self ==
    [tensor       |-> tensor,
     x_offset     |-> x_offset,
     y_offset     |-> y_offset,
     stride_x     |-> stride_x,
     stride_y     |-> stride_y,
     shape_x      |-> shape_x,
     shape_y      |-> shape_y,
     batch_offset |-> batch_offset]

\* new with the batch index taken as the batch offset
new_batchIndexAsOffset(t, x, y, batch) ==
    [tensor       |-> t,
     x_offset     |-> x,
     y_offset     |-> y,
     stride_x     |-> stride(t, t.rank - 2),
     stride_y     |-> stride(t, t.rank - 1),
     shape_x      |-> shape(t, t.rank - 2),
     shape_y      |-> shape(t, t.rank - 1),
     batch_offset |-> batch]

\* TensorView::new(tensor, x_offset, y_offset, nth_batch)
new(t, x, y, batch) ==
    LET rank     == t.rank
        strideX  == stride(t, rank - 2)
        strideY  == stride(t, rank - 1)
        shapeX   == shape(t, rank - 2)
        shapeY   == shape(t, rank - 1)
        stride_b == stride(t, rank - 3)
    IN  [tensor       |-> t,
         x_offset     |-> x,
         y_offset     |-> y,
         stride_x     |-> strideX,
         stride_y     |-> strideY,
         shape_x      |-> shapeX,
         shape_y      |-> shapeY,
         batch_offset |-> Mul(batch, stride_b)]

\* update_view with the two operands' offsets exchanged
update_view_swapped(self, k_offset, ident) ==
    CASE ident = "Lhs" ->
           [self    |-> [self EXCEPT !.x_offset = Add(self.x_offset, k_offset)],
            outcome |-> "returned"]
      [] ident = "Rhs" ->
           [self    |-> [self EXCEPT !.y_offset = Add(self.y_offset, k_offset)],
            outcome |-> "returned"]
      [] ident = "Out" ->
           [self    |-> self,
            outcome |-> "returned"]

\* addition that saturates at the largest u32
SaturatingAdd(a, b) == IF a + b >= Modulus THEN Modulus - 1 ELSE a + b

\* update_view with saturating instead of wrapping addition
update_view_saturating(self, k_offset, ident) ==
    CASE ident = "Lhs" ->
           [self    |-> [self EXCEPT !.y_offset = SaturatingAdd(self.y_offset, k_offset)],
            outcome |-> "returned"]
      [] ident = "Rhs" ->
           [self    |-> [self EXCEPT !.x_offset = SaturatingAdd(self.x_offset, k_offset)],
            outcome |-> "returned"]
      [] ident = "Out" ->
           [self    |-> self,
            outcome |-> "returned"]

\* update_view that refuses the output operand
update_view_abortsOnOut(self, k_offset, ident) ==
    CASE ident = "Lhs" ->
           [self    |-> [self EXCEPT !.y_offset = Add(self.y_offset, k_offset)],
            outcome |-> "returned"]
      [] ident = "Rhs" ->
           [self    |-> [self EXCEPT !.x_offset = Add(self.x_offset, k_offset)],
            outcome |-> "returned"]
      [] ident = "Out" ->
           [self    |-> self,
            outcome |-> "aborted"]

\* TensorView::update_view(&mut self, k_offset, ident): the view after the
\* call and how the call ended
update_view(self, k_offset, ident) ==
    CASE ident = "Lhs" ->
           [self    |-> [self EXCEPT !.y_offset = Add(self.y_offset, k_offset)],
            outcome |-> "returned"]
      [] ident = "Rhs" ->
           [self    |-> [self EXCEPT !.x_offset = Add(self.x_offset, k_offset)],
            outcome |-> "returned"]
      [] ident = "Out" ->
           [self    |-> self,
            outcome |-> "returned"]

\* select(condition, then, else)
select(condition, then, else) == IF condition THEN then ELSE else

\* unit_offset with the mappings of the two layouts exchanged
unit_offset_swappedLayouts(layout, unit_id, tile_size_x, tile_size_y) ==
    IF layout = "ColMajor"
    THEN <<unit_id \div tile_size_y, unit_id % tile_size_y>>
    ELSE <<unit_id % tile_size_x, unit_id \div tile_size_x>>

\* the offset of a unit within its tile, by the layout of the operand
unit_offset(layout, unit_id, tile_size_x, tile_size_y) ==
    IF layout = "RowMajor"
    THEN <<unit_id \div tile_size_y, unit_id % tile_size_y>>
    ELSE <<unit_id % tile_size_x, unit_id \div tile_size_x>>

\* in_bounds with || in place of &&
in_bounds_either(self, view_x, view_y) ==
    view_x < self.shape_x \/ view_y < self.shape_y

\* view_x < self.shape_x && view_y < self.shape_y
in_bounds(self, view_x, view_y) ==
    view_x < self.shape_x /\ view_y < self.shape_y

\* TensorView::load_coalesced(&self, tile_x, tile_y, unit_id, ident, config)
\* garbage is what tensor[read_pos] yields when read_pos is outside the buffer
load_coalesced(self, tile_x, tile_y, unit_id, ident, cfg, garbage) ==
    LET lineSize    == cfg.line_size[ident]
        tile_size_x == cfg.stage_dim[ident].tile_size_x
        tile_size_y == cfg.stage_dim[ident].tile_size_y
        view_tile_x == Add(Mul(tile_x, tile_size_x), self.x_offset)
        view_tile_y == Add(Mul(tile_y, tile_size_y), self.y_offset)
        load        == unit_offset(cfg.layout[ident], unit_id, tile_size_x, tile_size_y)
        view_x      == Add(view_tile_x, load[1])
        view_y      == Add(view_tile_y, load[2])
        undivided   == Add(Add(Mul(view_x, self.stride_x), Mul(view_y, self.stride_y)),
                           self.batch_offset)
        read_pos    == undivided \div lineSize
    IN  [view_x    |-> view_x,
         view_y    |-> view_y,
         undivided |-> undivided,
         pos       |-> read_pos,
         line      |-> select(in_bounds(self, view_x, view_y),
                              ReadLine(self.tensor, read_pos, garbage),
                              ZeroLine(lineSize))]

\* write_guard whose M-only branch tests the column
write_guard_mOnlyChecksY(self, view_x, view_y, cfg) ==
    IF cfg.check_m_bounds
    THEN IF cfg.check_n_bounds
         THEN view_x < self.shape_x /\ view_y < self.shape_y
         ELSE view_y < self.shape_y
    ELSE IF cfg.check_n_bounds
         THEN view_y < self.shape_y
         ELSE TRUE

\* the nested bound checks of write_coalesced: whether the store is executed
write_guard(self, view_x, view_y, cfg) ==
    IF cfg.check_m_bounds
    THEN IF cfg.check_n_bounds
         THEN view_x < self.shape_x /\ view_y < self.shape_y
         ELSE view_x < self.shape_x
    ELSE IF cfg.check_n_bounds
         THEN view_y < self.shape_y
         ELSE TRUE

\* tensor[pos] = line; a store outside the buffer leaves the buffer as it is
StoreLine(t, pos, line) ==
    IF pos \in DOMAIN t.data THEN [t EXCEPT !.data[pos] = line] ELSE t

\* TensorView::write_coalesced(&mut self, tile_x, tile_y, unit_id, value, config)
write_coalesced(self, tile_x, tile_y, unit_id, value, cfg) ==
    LET stage_dim == cfg.stage_dim["Out"]
        view_x    == Add(Add(Mul(tile_x, stage_dim.tile_size_x),
                             unit_id \div stage_dim.tile_size_y), self.x_offset)
        view_y    == Add(Add(Mul(tile_y, stage_dim.tile_size_y),
                             unit_id % stage_dim.tile_size_y), self.y_offset)
        write_position ==
            Add(Add(Mul(view_x, self.stride_x), Mul(view_y, self.stride_y)),
                self.batch_offset) \div self.tensor.line_size
        wrote     == write_guard(self, view_x, view_y, cfg)
    IN  [self   |-> IF wrote
                    THEN [self EXCEPT !.tensor =
                              StoreLine(self.tensor, write_position, CastLine(value))]
                    ELSE self,
         view_x |-> view_x,
         view_y |-> view_y,
         pos    |-> write_position,
         wrote  |-> wrote]

----------------------------------------------------------------------------
(* Calls on the view *)

NoOp ==
    [op |-> "none", ident |-> "Out", k_offset |-> 0, tile_x |-> 0, tile_y |-> 0,
     unit_id |-> 0, value |-> <<>>, x_before |-> 0, y_before |-> 0,
     view_x |-> 0, view_y |-> 0, undivided |-> 0, pos |-> 0, line |-> <<>>,
     wrote |-> FALSE, stray |-> "none", outcome |-> "returned",
     prev_op |-> "none", prev_ident |-> "Out", prev_k |-> 0,
     prev_x |-> 0, prev_y |-> 0]

\* k_offset values passed to update_view: steps and the u32 values standing
\* for the same steps backwards
KOffsets == {1, 3, Neg(1), Neg(3)}

Tiles == 0..MaxTile

\* the units of one tile
Units(ident) ==
    0..(config.stage_dim[ident].tile_size_x * config.stage_dim[ident].tile_size_y - 1)

\* the lines a unit may hand to write_coalesced
Values == { [j \in 1..tensor.line_size |-> Modulus - 2] }

SetSelf(s) ==
    /\ tensor' = s.tensor
    /\ x_offset' = s.x_offset
    /\ y_offset' = s.y_offset
    /\ stride_x' = s.stride_x
    /\ stride_y' = s.stride_y
    /\ shape_x' = s.shape_x
    /\ shape_y' = s.shape_y
    /\ batch_offset' = s.batch_offset

SetSelfInit(s) ==
    /\ tensor = s.tensor
    /\ x_offset = s.x_offset
    /\ y_offset = s.y_offset
    /\ stride_x = s.stride_x
    /\ stride_y = s.stride_y
    /\ shape_x = s.shape_x
    /\ shape_y = s.shape_y
    /\ batch_offset = s.batch_offset

UpdateView(k_offset, ident) ==
    /\ advances < MaxAdvance
    /\ LET r == update_view(Self, k_offset, ident)
       IN  /\ SetSelf(r.self)
           /\ lastOp' = [NoOp EXCEPT !.op = "update_view", !.ident = ident,
                                     !.k_offset = k_offset,
                                     !.x_before = x_offset, !.y_before = y_offset,
                                     !.outcome = r.outcome,
                                     !.prev_op = lastOp.op,
                                     !.prev_ident = lastOp.ident,
                                     !.prev_k = lastOp.k_offset,
                                     !.prev_x = lastOp.x_before,
                                     !.prev_y = lastOp.y_before]
    /\ advances' = advances + 1
    /\ UNCHANGED <<config, nth_batch, writes>>
    /\ UNCHANGED barrierVars

LoadCoalesced(tile_x, tile_y, unit_id, ident) ==
    /\ \E garbage \in GarbageLines(tensor.line_size) :
          LET r == load_coalesced(Self, tile_x, tile_y, unit_id, ident, config, garbage)
          IN  \* one read inside the buffer has one outcome
              /\ r.pos \in DOMAIN tensor.data => garbage = ZeroLine(tensor.line_size)
              /\ lastOp' = [NoOp EXCEPT !.op = "load_coalesced", !.ident = ident,
                                     !.tile_x = tile_x, !.tile_y = tile_y,
                                     !.unit_id = unit_id,
                                     !.x_before = x_offset, !.y_before = y_offset,
                                     !.view_x = r.view_x, !.view_y = r.view_y,
                                     !.undivided = r.undivided,
                                     !.pos = r.pos, !.line = r.line]
    /\ UNCHANGED <<tensor, x_offset, y_offset, stride_x, stride_y, shape_x, shape_y,
                   batch_offset, config, nth_batch, advances, writes>>
    /\ UNCHANGED barrierVars

WriteCoalesced(tile_x, tile_y, unit_id, value) ==
    /\ writes < MaxWrites
    /\ LET r == write_coalesced(Self, tile_x, tile_y, unit_id, value, config)
       IN  /\ SetSelf(r.self)
           /\ \E stray \in IF r.wrote /\ r.pos \notin DOMAIN tensor.data
                           THEN {"dropped", "landed"} ELSE {"none"} :
                 lastOp' = [NoOp EXCEPT !.op = "write_coalesced",
                                        !.tile_x = tile_x, !.tile_y = tile_y,
                                        !.unit_id = unit_id, !.value = value,
                                        !.x_before = x_offset, !.y_before = y_offset,
                                        !.view_x = r.view_x, !.view_y = r.view_y,
                                        !.pos = r.pos, !.wrote = r.wrote,
                                        !.stray = stray]
    /\ writes' = writes + 1
    /\ UNCHANGED <<config, nth_batch, advances>>
    /\ UNCHANGED barrierVars

----------------------------------------------------------------------------
(* BarrierOps and their rendering (barrier.rs) *)

\* Variable<D>: the name it is rendered with, its item and its length
BarrierVar == [name |-> "barrier_0", item |-> "barrier", len |-> 1]

SourceVars == { [name |-> "src", item |-> "f32", len |-> 2],
                [name |-> "src", item |-> "f16", len |-> 3] }

DestinationVars == { [name |-> "dst", item |-> "f32", len |-> 2],
                     [name |-> "dst", item |-> "f16", len |-> 4],
                     [name |-> "dst", item |-> "f64", len |-> 1] }

\* sizeof(item) in the generated code
SizeOf(item) == CASE item = "f16" -> 2
                  [] item = "f32" -> 4
                  [] item = "f64" -> 8

\* BarrierLevel
Unit == [kind |-> "Unit", elected_unit |-> 0]

Cube(elected_unit) == [kind |-> "Cube", elected_unit |-> elected_unit]

\* BarrierOps
OpInit(barrier, level) ==
    [op |-> "Init", barrier |-> barrier, level |-> level,
     source |-> barrier, destination |-> barrier]

OpMemCopyAsync(barrier, source, destination) ==
    [op |-> "MemCopyAsync", barrier |-> barrier, level |-> Unit,
     source |-> source, destination |-> destination]

OpWait(barrier) ==
    [op |-> "Wait", barrier |-> barrier, level |-> Unit,
     source |-> barrier, destination |-> barrier]

NoGuard == -1

\* a statement of the generated code
Stmt(kind, barrier) ==
    [stmt |-> kind, barrier |-> barrier.name, scope |-> "none", guard |-> NoGuard,
     count |-> "none", dst |-> barrier, src |-> barrier,
     length_of |-> barrier, size_of |-> "none"]

\* RenderMemCopyAsync sizing the copy by the destination's item
RenderMemCopyAsync_destinationItem(barrier, source, destination) ==
    << [Stmt("memcpy_async", barrier) EXCEPT
           !.dst = destination, !.src = source,
           !.length_of = source, !.size_of = destination.item] >>

\* cuda::memcpy_async({destination}, {source}, {source}_length * sizeof({item}), {barrier});
RenderMemCopyAsync(barrier, source, destination) ==
    LET item == source.item
    IN  << [Stmt("memcpy_async", barrier) EXCEPT
               !.dst = destination, !.src = source,
               !.length_of = source, !.size_of = item] >>

\* cuda::barrier<cuda::thread_scope_thread> {barrier};
\* init(&{barrier}, 1);
RenderInitUnit(barrier) ==
    << [Stmt("declare", barrier) EXCEPT !.scope = "thread"],
       [Stmt("init", barrier) EXCEPT !.count = "1"] >>

\* RenderInitCube without the election of one unit
RenderInitCube_unguarded(barrier, elected_unit) ==
    << [Stmt("declare", barrier) EXCEPT !.scope = "block"],
       [Stmt("init", barrier) EXCEPT !.count = "blockDimGlobal"] >>

\* __shared__ cuda::barrier<cuda::thread_scope_block> {barrier};
\* if (threadIdxGlobal == {elected_unit}) { init(&{barrier}, blockDimGlobal); }
RenderInitCube(barrier, elected_unit) ==
    << [Stmt("declare", barrier) EXCEPT !.scope = "block"],
       [Stmt("init", barrier) EXCEPT !.guard = elected_unit,
                                     !.count = "blockDimGlobal"] >>

\* {barrier}.arrive_and_wait();
RenderWait(barrier) ==
    << Stmt("arrive_and_wait", barrier) >>

\* impl Display for BarrierOps
Render(o) ==
    CASE o.op = "MemCopyAsync" -> RenderMemCopyAsync(o.barrier, o.source, o.destination)
      [] o.op = "Init" ->
           IF o.level.kind = "Unit"
           THEN RenderInitUnit(o.barrier)
           ELSE RenderInitCube(o.barrier, o.level.elected_unit)
      [] o.op = "Wait" -> RenderWait(o.barrier)

\* the generated code of a kernel body: the fragments in order
RECURSIVE RenderAll(_)
RenderAll(ops) ==
    IF ops = <<>> THEN <<>> ELSE Render(Head(ops)) \o RenderAll(Tail(ops))

Code == RenderAll(program)

----------------------------------------------------------------------------
(* One cube executing the generated code *)

NoToken == -1

Lanes == 0..(NumLanes - 1)

\* threadIdxGlobal of a lane, and blockDimGlobal
threadIdxGlobal(l) == l

blockDimGlobal == NumLanes

EvalCount(count) == IF count = "blockDimGlobal" THEN blockDimGlobal ELSE 1

\* {source}_length * sizeof({item})
EvalBytes(st) == st.length_of.len * SizeOf(st.size_of)

\* the bytes of a variable's buffer, each tagged with its position
MemoryOf(v) == [i \in 1..(v.len * SizeOf(v.item)) |-> i]

\* a barrier object before init: its storage is not initialized
UninitBarrier == [initialized |-> FALSE, expected |-> 0, pending |-> 0,
                  copies |-> 0, phase |-> 0]

\* the scope the barrier was declared with in the generated code
ScopeOf(name) ==
    LET decls == { i \in 1..Len(Code) :
                     Code[i].stmt = "declare" /\ Code[i].barrier = name }
    IN  IF decls = {} THEN "none" ELSE Code[CHOOSE i \in decls : TRUE].scope

\* the object a lane's use of the barrier name refers to
Target(l, name) ==
    IF ScopeOf(name) = "block"
    THEN [storage |-> "shared", lane |-> NoGuard]
    ELSE [storage |-> "local", lane |-> l]

BarrierOf(l, name) == IF ScopeOf(name) = "block" THEN sharedBar ELSE localBar[l]

SetBarrier(l, name, b) ==
    IF ScopeOf(name) = "block"
    THEN sharedBar' = b /\ UNCHANGED localBar
    ELSE localBar' = [localBar EXCEPT ![l] = b] /\ UNCHANGED sharedBar

\* the phase of an initialized barrier completes when every expected arrival
\* and every copy registered against it has completed
Complete(b) ==
    IF b.initialized /\ b.pending = 0 /\ b.copies = 0
    THEN [b EXCEPT !.phase = 1 - @, !.pending = b.expected]
    ELSE b

AtStmt(l, kind) == pc[l] <= Len(Code) /\ Code[pc[l]].stmt = kind

Advance(l) == pc' = [pc EXCEPT ![l] = @ + 1]

\* the declaration of the barrier object
ExecDeclare(l) ==
    /\ AtStmt(l, "declare")
    /\ Advance(l)
    /\ UNCHANGED <<program, sharedBar, localBar, token, initLog, copies,
                   dstMem, ub>>
    /\ UNCHANGED viewVars

\* [if (threadIdxGlobal == guard)] init(&barrier, count);
ExecInit(l) ==
    /\ AtStmt(l, "init")
    /\ LET st == Code[pc[l]]
       IN  IF st.guard = NoGuard \/ threadIdxGlobal(l) = st.guard
           THEN /\ SetBarrier(l, st.barrier,
                       [initialized |-> TRUE, expected |-> EvalCount(st.count),
                        pending |-> EvalCount(st.count), copies |-> 0, phase |-> 0])
                /\ initLog' = [initLog EXCEPT ![l] =
                       Append(@, [target |-> Target(l, st.barrier),
                                  count  |-> EvalCount(st.count)])]
           ELSE UNCHANGED <<sharedBar, localBar, initLog>>
    /\ Advance(l)
    /\ UNCHANGED <<program, token, copies, dstMem, ub>>
    /\ UNCHANGED viewVars

\* cuda::memcpy_async(dst, src, bytes, barrier): the copy is issued and
\* registered against the barrier; it completes later
ExecMemCopyAsync(l) ==
    /\ AtStmt(l, "memcpy_async")
    /\ LET st == Code[pc[l]]
           b  == BarrierOf(l, st.barrier)
       IN  /\ SetBarrier(l, st.barrier, [b EXCEPT !.copies = @ + 1])
           /\ copies' = [copies EXCEPT ![l] =
                  Append(@, [bytes |-> EvalBytes(st), src |-> st.src, dst |-> st.dst,
                             barrier |-> st.barrier, done |-> FALSE])]
           /\ ub' = IF b.initialized THEN ub
                    ELSE ub \cup {[lane |-> l, stmt |-> "memcpy_async"]}
    /\ Advance(l)
    /\ UNCHANGED <<program, token, initLog, dstMem>>
    /\ UNCHANGED viewVars

\* the copy engine completes a copy: the bytes are in the destination and the
\* barrier is told
CopyComplete(l) ==
    /\ copies[l] # <<>>
    /\ ~copies[l][1].done
    /\ LET c   == copies[l][1]
           b   == BarrierOf(l, c.barrier)
           mem == MemoryOf(c.src)
       IN  /\ dstMem' =
                  [i \in DOMAIN dstMem |->
                      IF i <= c.bytes /\ i \in DOMAIN mem THEN mem[i] ELSE dstMem[i]]
           /\ SetBarrier(l, c.barrier,
                  Complete([b EXCEPT !.copies = IF @ > 0 THEN @ - 1 ELSE 0]))
           /\ copies' = [copies EXCEPT ![l][1].done = TRUE]
    /\ UNCHANGED <<program, pc, token, initLog, ub>>
    /\ UNCHANGED viewVars

\* barrier.arrive_and_wait(), first half: the lane arrives.  On a barrier that
\* was not initialized the arrival acts on whatever the storage holds: the
\* phase may or may not move.
ExecArrive(l) ==
    /\ AtStmt(l, "arrive_and_wait")
    /\ token[l] = NoToken
    /\ LET st == Code[pc[l]]
           b  == BarrierOf(l, st.barrier)
       IN  /\ token' = [token EXCEPT ![l] = b.phase]
           /\ IF b.initialized
              THEN /\ SetBarrier(l, st.barrier,
                          Complete([b EXCEPT !.pending = IF @ > 0 THEN @ - 1 ELSE 0]))
                   /\ ub' = ub
              ELSE /\ \E moves \in BOOLEAN :
                         SetBarrier(l, st.barrier,
                             [b EXCEPT !.phase = IF moves THEN 1 - @ ELSE @])
                   /\ ub' = ub \cup {[lane |-> l, stmt |-> "arrive_and_wait"]}
    /\ UNCHANGED <<program, pc, initLog, copies, dstMem>>
    /\ UNCHANGED viewVars

\* barrier.arrive_and_wait(), second half: the lane leaves once the phase it
\* arrived in has completed
ExecWait(l) ==
    /\ AtStmt(l, "arrive_and_wait")
    /\ token[l] # NoToken
    /\ BarrierOf(l, Code[pc[l]].barrier).phase # token[l]
    /\ token' = [token EXCEPT ![l] = NoToken]
    /\ Advance(l)
    /\ UNCHANGED <<program, sharedBar, localBar, initLog, copies, dstMem, ub>>
    /\ UNCHANGED viewVars

\* the kernel bodies: a cube-level barrier waited on, and a unit-level or
\* cube-level barrier tracking an asynchronous copy
Programs ==
    { <<OpInit(BarrierVar, Cube(t)), OpWait(BarrierVar)>> : t \in 0..NumLanes }
    \cup
    { <<OpInit(BarrierVar, level), OpMemCopyAsync(BarrierVar, s, d), OpWait(BarrierVar)>> :
          level \in {Unit, Cube(0)}, s \in SourceVars, d \in DestinationVars }

DestinationOf(ops) ==
    LET cp == { i \in 1..Len(ops) : ops[i].op = "MemCopyAsync" }
    IN  IF cp = {} THEN <<>>
        ELSE LET d == ops[CHOOSE i \in cp : TRUE].destination
             IN  [i \in 1..(d.len * SizeOf(d.item)) |-> 0]

BarrierStart(ops) ==
    /\ program = ops
    /\ pc = [l \in Lanes |-> 1]
    /\ sharedBar = UninitBarrier
    /\ localBar = [l \in Lanes |-> UninitBarrier]
    /\ token = [l \in Lanes |-> NoToken]
    /\ initLog = [l \in Lanes |-> <<>>]
    /\ copies = [l \in Lanes |-> <<>>]
    /\ dstMem = DestinationOf(ops)
    /\ ub = {}

\* no kernel body runs while the view is exercised
BarrierIdle == BarrierStart(<<>>)

\* the view is built by TensorView::new from a tensor, an origin and a batch
InitTensorView(origins, flags) ==
    \E t \in Tensors, o \in origins, batch \in 0..1 :
        /\ SetSelfInit(new(t, o[1], o[2], batch))
        /\ config \in Configs(flags, t.line_size)
        /\ nth_batch = batch
        /\ advances = 0
        /\ writes = 0
        /\ lastOp = NoOp

\* ---- the view of an input operand advanced along k ----
InitAdvance ==
    /\ InitTensorView({0, 1} \X {0, 1}, {<<FALSE, FALSE>>})
    /\ BarrierIdle

NextAdvance ==
    \E k_offset \in KOffsets, ident \in Idents : UpdateView(k_offset, ident)

SpecAdvance == InitAdvance /\ [][NextAdvance]_vars

\* ---- the view of an operand read tile by tile ----
InitLoad ==
    /\ InitTensorView({0, 1, Modulus - 1} \X {0, 3}, {<<FALSE, FALSE>>})
    /\ BarrierIdle

NextLoad ==
    \E tile_x \in Tiles, tile_y \in Tiles, ident \in Idents :
        \E unit_id \in Units(ident) : LoadCoalesced(tile_x, tile_y, unit_id, ident)

SpecLoad == InitLoad /\ [][NextLoad]_vars

\* ---- the view of the output: written ----
InitStore ==
    /\ InitTensorView({0, 1, Modulus - 1} \X {0, 1},
                      {<<FALSE, FALSE>>, <<FALSE, TRUE>>, <<TRUE, FALSE>>, <<TRUE, TRUE>>})
    /\ BarrierIdle

NextStore ==
    \E tile_x \in Tiles, tile_y \in Tiles, value \in Values :
        \E unit_id \in Units("Out") : WriteCoalesced(tile_x, tile_y, unit_id, value)

SpecStore == InitStore /\ [][NextStore]_vars

\* ---- one cube running a rendered kernel body ----
ViewIdle ==
    /\ SetSelfInit(new(MkTensor(<<1, 1, 1>>, Contiguous(<<1, 1, 1>>), 1), 0, 0, 0))
    /\ config \in Configs({<<FALSE, FALSE>>}, 1)
    /\ config.stage_dim["Out"].tile_size_x = 1
    /\ nth_batch = 0
    /\ advances = 0
    /\ writes = 0
    /\ lastOp = NoOp

InitBarrier ==
    /\ \E ops \in Programs : BarrierStart(ops)
    /\ ViewIdle

NextBarrier ==
    \E l \in Lanes :
        \/ ExecDeclare(l)
        \/ ExecInit(l)
        \/ ExecMemCopyAsync(l)
        \/ CopyComplete(l)
        \/ ExecArrive(l)
        \/ ExecWait(l)

SpecBarrier == InitBarrier /\ [][NextBarrier]_vars

----------------------------------------------------------------------------
(* Properties of write_coalesced, checked under SpecStore *)

\* C1: a call of write_coalesced stores the line exactly when
\* (check_m_bounds is clear or view_x < shape_x) and (check_n_bounds is clear
\* or view_y < shape_y), with view_x = tile_x*tile_size_x +
\* unit_id/tile_size_y + x_offset and view_y = tile_y*tile_size_y +
\* unit_id%tile_size_y + y_offset in u32 arithmetic; a suppressed store leaves
\* the buffer as it was, an executed one puts the line at the write position.
C1_StoreIffWithinCheckedBounds ==
    [][ lastOp'.op = "write_coalesced" =>
          LET tsx     == config.stage_dim["Out"].tile_size_x
              tsy     == config.stage_dim["Out"].tile_size_y
              view_x  == (lastOp'.tile_x * tsx + (lastOp'.unit_id \div tsy) + x_offset)
                             % Modulus
              view_y  == (lastOp'.tile_y * tsy + (lastOp'.unit_id % tsy) + y_offset)
                             % Modulus
              pos     == ((view_x * stride_x + view_y * stride_y + batch_offset)
                             % Modulus) \div tensor.line_size
              allowed == /\ (~config.check_m_bounds \/ view_x < shape_x)
                         /\ (~config.check_n_bounds \/ view_y < shape_y)
          IN  /\ lastOp'.wrote = allowed
              /\ (allowed /\ pos \in DOMAIN tensor.data)
                    => tensor' = [tensor EXCEPT !.data[pos] = lastOp'.value]
              /\ (allowed /\ pos \notin DOMAIN tensor.data) => tensor' = tensor
              /\ ~allowed => tensor' = tensor
      ]_vars

\* C1 witness: only check_m_bounds is set, the column is out of range, the row
\* is in range, and the line was stored.
C1_Witness ==
    /\ lastOp.op = "write_coalesced"
    /\ config.check_m_bounds /\ ~config.check_n_bounds
    /\ lastOp.view_y >= shape_y /\ lastOp.view_x < shape_x
    /\ lastOp.wrote
    /\ lastOp.pos \in DOMAIN tensor.data
    /\ tensor.data[lastOp.pos] = lastOp.value

----------------------------------------------------------------------------
(* Properties of load_coalesced, checked under SpecLoad *)

\* C2: a load whose coordinate has view_x >= shape_x or view_y >= shape_y
\* returns a line of the configured width whose elements are all zero.
C2_OutOfBoundsLoadIsZero ==
    (/\ lastOp.op = "load_coalesced"
     /\ (lastOp.view_x >= shape_x \/ lastOp.view_y >= shape_y))
    => lastOp.line = [j \in 1..config.line_size[lastOp.ident] |-> 0]

\* C2 witness: an out-of-bounds load whose read position holds a non-zero line.
C2_Witness ==
    /\ lastOp.op = "load_coalesced"
    /\ lastOp.view_x >= shape_x
    /\ lastOp.pos \in DOMAIN tensor.data
    /\ \A j \in 1..tensor.line_size : tensor.data[lastOp.pos][j] # 0
    /\ lastOp.line = [j \in 1..tensor.line_size |-> 0]

\* the element at (row, col) of batch b of a [batch, rows, cols] tensor whose
\* elements are tagged in logical order
ElementAt(b, row, col) == (b * tensor.shape[2] + row) * tensor.shape[3] + col + 1

\* C3: over a contiguous rank-3 buffer of line width 1 read in row-major
\* layout, an in-bounds load reads the element at row = tile_x*tile_size_x +
\* unit_id/tile_size_y + x_offset, col = tile_y*tile_size_y +
\* unit_id%tile_size_y + y_offset of batch nth_batch, at linear position
\* (row*stride_x + col*stride_y + nth_batch*stride(rank-3)) / line_width; for
\* shape [2,4,4], 2x2 tiles, batch 1, offsets (0,0), tile (1,1), unit 3 that
\* is (row 3, col 3) of batch 1.
C3_LoadReadsLogicalElement ==
    (/\ lastOp.op = "load_coalesced"
     /\ tensor.strides = Contiguous(tensor.shape)
     /\ tensor.line_size = 1
     /\ config.layout[lastOp.ident] = "RowMajor")
    => LET tsx == config.stage_dim[lastOp.ident].tile_size_x
           tsy == config.stage_dim[lastOp.ident].tile_size_y
           row == (lastOp.tile_x * tsx + (lastOp.unit_id \div tsy) + x_offset) % Modulus
           col == (lastOp.tile_y * tsy + (lastOp.unit_id % tsy) + y_offset) % Modulus
           linear == ((row * stride_x + col * stride_y
                          + nth_batch * stride(tensor, tensor.rank - 3)) % Modulus)
                         \div tensor.line_size
       IN  /\ (row < shape_x /\ col < shape_y)
                 => /\ lastOp.pos = linear
                    /\ lastOp.line = <<ElementAt(nth_batch, row, col)>>
           /\ (/\ tensor.shape = <<2, 4, 4>>
               /\ tsx = 2 /\ tsy = 2
               /\ nth_batch = 1 /\ x_offset = 0 /\ y_offset = 0
               /\ lastOp.tile_x = 1 /\ lastOp.tile_y = 1 /\ lastOp.unit_id = 3)
                 => /\ row = 3 /\ col = 3
                    /\ lastOp.pos = 31
                    /\ lastOp.line = <<ElementAt(1, 3, 3)>>

\* C3 witness: the load of the scenario has been made.
C3_Witness ==
    /\ lastOp.op = "load_coalesced"
    /\ tensor.shape = <<2, 4, 4>> /\ tensor.strides = <<16, 4, 1>>
    /\ tensor.line_size = 1
    /\ config.stage_dim[lastOp.ident].tile_size_x = 2
    /\ config.layout[lastOp.ident] = "RowMajor"
    /\ nth_batch = 1 /\ x_offset = 0 /\ y_offset = 0
    /\ lastOp.tile_x = 1 /\ lastOp.tile_y = 1 /\ lastOp.unit_id = 3
    /\ lastOp.line = <<32>>

\* C6: the unit before the one that loaded, when it is in the same row
\* (row-major) or the same column (column-major) of the tile, has the same
\* view_x and a view_y smaller by one, its un-divided position smaller by
\* stride_y (row-major); the same view_y and a view_x smaller by one, its
\* position smaller by stride_x (column-major).  Differences are u32
\* differences.
C6_ConsecutiveUnitsAreAdjacent ==
    (lastOp.op = "load_coalesced" /\ lastOp.unit_id >= 1)
    => LET tsx  == config.stage_dim[lastOp.ident].tile_size_x
           tsy  == config.stage_dim[lastOp.ident].tile_size_y
           u    == lastOp.unit_id - 1
           prev == load_coalesced(Self, lastOp.tile_x, lastOp.tile_y, u,
                                  lastOp.ident, config, ZeroLine(tensor.line_size))
       IN  /\ (/\ config.layout[lastOp.ident] = "RowMajor"
               /\ u \div tsy = (u + 1) \div tsy)
                 => /\ lastOp.view_x = prev.view_x
                    /\ lastOp.view_y = (prev.view_y + 1) % Modulus
                    /\ lastOp.undivided = (prev.undivided + stride_y) % Modulus
           /\ (/\ config.layout[lastOp.ident] = "ColMajor"
               /\ u \div tsx = (u + 1) \div tsx)
                 => /\ lastOp.view_y = prev.view_y
                    /\ lastOp.view_x = (prev.view_x + 1) % Modulus
                    /\ lastOp.undivided = (prev.undivided + stride_x) % Modulus

\* C6 witness: a column-major load by the second unit of a column, in bounds.
C6_Witness ==
    /\ lastOp.op = "load_coalesced"
    /\ config.layout[lastOp.ident] = "ColMajor"
    /\ config.stage_dim[lastOp.ident].tile_size_x = 2
    /\ lastOp.unit_id = 3
    /\ lastOp.view_x < shape_x /\ lastOp.view_y < shape_y
    /\ lastOp.line # ZeroLine(tensor.line_size)

----------------------------------------------------------------------------
(* Properties of update_view, checked under SpecAdvance *)

\* C4: update_view with Lhs adds k_offset to y_offset and leaves x_offset;
\* with Rhs adds k_offset to x_offset and leaves y_offset; with Out changes
\* neither; in all cases the strides, the shapes, the batch offset and the
\* buffer stay as they are (u32 addition).
C4_UpdateViewFrame ==
    [][ lastOp'.op = "update_view" =>
          /\ lastOp'.ident = "Lhs" =>
                /\ y_offset' = (y_offset + lastOp'.k_offset) % Modulus
                /\ x_offset' = x_offset
          /\ lastOp'.ident = "Rhs" =>
                /\ x_offset' = (x_offset + lastOp'.k_offset) % Modulus
                /\ y_offset' = y_offset
          /\ lastOp'.ident = "Out" =>
                /\ x_offset' = x_offset
                /\ y_offset' = y_offset
          /\ UNCHANGED <<stride_x, stride_y, shape_x, shape_y, batch_offset, tensor>>
      ]_vars

\* C4 witness: several calls were made and the last, with Lhs, moved y_offset.
C4_Witness ==
    /\ lastOp.op = "update_view"
    /\ lastOp.ident = "Lhs"
    /\ advances >= 2
    /\ y_offset # lastOp.y_before
    /\ x_offset = lastOp.x_before

\* C5: update_view(k, Lhs) followed by update_view(-k, Lhs) restores y_offset,
\* update_view(k, Rhs) followed by update_view(-k, Rhs) restores x_offset, -k
\* being the u32 that stands for -k; update_view(k, Out) changes no offset.
C5_UpdateViewRoundTrip ==
    /\ (/\ lastOp.op = "update_view" /\ lastOp.prev_op = "update_view"
        /\ lastOp.ident = lastOp.prev_ident
        /\ lastOp.k_offset = (Modulus - lastOp.prev_k) % Modulus)
       => /\ lastOp.ident = "Lhs" => y_offset = lastOp.prev_y
          /\ lastOp.ident = "Rhs" => x_offset = lastOp.prev_x
    /\ (lastOp.op = "update_view" /\ lastOp.ident = "Out")
       => x_offset = lastOp.x_before /\ y_offset = lastOp.y_before

\* C5 witness: the second call of a round trip over Lhs wrapped around.
C5_Witness ==
    /\ lastOp.op = "update_view" /\ lastOp.prev_op = "update_view"
    /\ lastOp.ident = "Lhs" /\ lastOp.prev_ident = "Lhs"
    /\ lastOp.prev_k = 3 /\ lastOp.k_offset = Modulus - 3
    /\ lastOp.y_before + lastOp.k_offset >= Modulus
    /\ y_offset = lastOp.prev_y

\* C7 as stated: update_view(k_offset, Out) aborts instead of returning.
C7_OutAdvanceAborts ==
    (lastOp.op = "update_view" /\ lastOp.ident = "Out")
    => lastOp.outcome = "aborted"

\* C7 as amended: update_view(k_offset, Out) returns normally and leaves the
\* whole view as it was.
C7_OutAdvanceReturnsUnchanged ==
    [][ (lastOp'.op = "update_view" /\ lastOp'.ident = "Out")
          => /\ lastOp'.outcome = "returned"
             /\ UNCHANGED <<tensor, x_offset, y_offset, stride_x, stride_y,
                            shape_x, shape_y, batch_offset>>
      ]_vars

\* C7 witness: update_view was called with Out after the view had moved.
C7_Witness ==
    /\ lastOp.op = "update_view"
    /\ lastOp.ident = "Out"
    /\ lastOp.prev_op = "update_view"
    /\ lastOp.prev_ident = "Rhs"
    /\ lastOp.outcome = "returned"

----------------------------------------------------------------------------
(* Properties of the rendered barrier code, checked under SpecBarrier *)

InitStmt == CHOOSE i \in 1..Len(Code) : Code[i].stmt = "init"

PastInit(l) == pc[l] > InitStmt

\* C8: executing the code of Init{barrier, Cube(t)}, only the lane whose
\* thread index is t calls init on the shared barrier, once, with the number
\* of lanes of the cube as participant count; executing the code of
\* Init{barrier, Unit}, each lane calls init on its own barrier with count 1.
C8_ElectedLaneInitializes ==
    (program # <<>>)
    => LET level == program[1].level
       IN  IF level.kind = "Cube"
           THEN /\ \A l \in Lanes :
                      initLog[l] # <<>> =>
                          /\ l = level.elected_unit
                          /\ initLog[l] = << [target |-> [storage |-> "shared",
                                                          lane |-> NoGuard],
                                              count  |-> NumLanes] >>
                /\ \A l \in Lanes :
                      (l = level.elected_unit /\ PastInit(l)) => Len(initLog[l]) = 1
                /\ (\A l \in Lanes : PastInit(l))
                      => (sharedBar.initialized <=> level.elected_unit \in Lanes)
                /\ sharedBar.initialized => sharedBar.expected = NumLanes
           ELSE \A l \in Lanes :
                   /\ initLog[l] = IF PastInit(l)
                                   THEN << [target |-> [storage |-> "local", lane |-> l],
                                            count  |-> 1] >>
                                   ELSE <<>>
                   /\ PastInit(l) => localBar[l].initialized /\ localBar[l].expected = 1

\* C8 witness: every lane is past the code of Init{barrier, Cube(t)}, t is the
\* last lane of the cube, and that lane initialized the barrier.
C8_Witness ==
    /\ program # <<>>
    /\ program[1].level.kind = "Cube"
    /\ program[1].level.elected_unit = NumLanes - 1
    /\ \A l \in Lanes : PastInit(l)
    /\ Len(initLog[NumLanes - 1]) = 1
    /\ sharedBar.initialized

\* the MemCopyAsync operation of the kernel body
CopyOp == program[CHOOSE i \in 1..Len(program) : program[i].op = "MemCopyAsync"]

\* C9: the copy rendered for MemCopyAsync{barrier, source, destination}
\* transfers length(source) * size_of(item of source) bytes from source to
\* destination and is registered against barrier, whatever the item and the
\* length of destination.
C9_CopySizedBySource ==
    \A l \in Lanes : \A i \in DOMAIN copies[l] :
        LET c == copies[l][i]
        IN  /\ c.bytes = CopyOp.source.len * SizeOf(CopyOp.source.item)
            /\ c.bytes = Len(MemoryOf(CopyOp.source))
            /\ c.src = CopyOp.source
            /\ c.dst = CopyOp.destination
            /\ c.barrier = CopyOp.barrier.name
            /\ (~c.done /\ program[1].level.kind = "Unit") => localBar[l].copies = 1
            /\ c.done => \A j \in DOMAIN dstMem :
                             j <= c.bytes => dstMem[j] = MemoryOf(CopyOp.source)[j]

\* C9 witness: a copy between buffers of different items has completed.
C9_Witness ==
    \E l \in Lanes :
        /\ copies[l] # <<>>
        /\ copies[l][1].done
        /\ copies[l][1].src.item = "f16"
        /\ copies[l][1].dst.item = "f64"
        /\ copies[l][1].bytes = 6

\* C10: running the code of Init{barrier, Cube(t)} then Wait{barrier}, t a lane
\* of the cube, no lane arrives on the barrier before the elected lane has
\* initialized it.
C10_NoArrivalBeforeInit ==
    (/\ Len(program) = 2
     /\ program[1].level.kind = "Cube"
     /\ program[1].level.elected_unit \in Lanes)
    => \A l \in Lanes : [lane |-> l, stmt |-> "arrive_and_wait"] \notin ub

====
